---------------------------- MODULE Spec2Model ----------------------------
(***************************************************************************)
(* Model of src/app.py (sitemap_to_wxr): discover the sitemap of a site,   *)
(* expand it to page URLs, scrape each page title, generate a post per     *)
(* title and write a WordPress WXR export file.                            *)
(*                                                                         *)
(* Strings are sequences of tokens.  A token is a chunk of characters that *)
(* the program never splits: "https://", "http", "/", "Sitemap:", " ",     *)
(* "\n", a digit, a letter.  Concatenation of strings is \o.               *)
(***************************************************************************)
EXTENDS Integers, Sequences, FiniteSets, TLC

VARIABLES
    args,         \* argparse namespace: url, domain_filter, max_posts, output
    robots,       \* environment: what GET <base>/robots.txt answers
    web,          \* environment: sitemap URL -> what GET answers
    pages,        \* environment: page URL -> what GET answers
    pc,           \* position of main()
    sitemap_url,  \* main: result of discover_sitemap
    stack,        \* call stack of parse_sitemap, innermost frame last
    urls,         \* main: the URL list
    i,            \* main: loop index of enumerate(...)
    title,        \* main: title of the post being made
    posts,        \* main: the Post records
    rss,          \* main: result of build_wxr (sequence of <item>s)
    file,         \* the output path: sequence of the writes made to it
    exit_status,  \* process exit status, -1 while running
    log           \* trace of network calls, generation calls and pauses

vars == <<args, robots, web, pages, pc, sitemap_url, stack, urls, i, title,
          posts, rss, file, exit_status, log>>

env == <<args, robots, web, pages>>

--------------------------------------------------------------------------
(* Bounds of the model *)

MaxBaseLen == 3
MaxRobotsLen == 4
MaxLocs == 2
MaxDepth == 4
MaxPosts == 2
MaxTitleLen == 2
MaxFilterLen == 2

DefaultMaxPosts == 20

--------------------------------------------------------------------------
(* Strings *)

SeqsUpTo(S, n) == UNION {[1..k -> S] : k \in 0..n}

\* Python's None / a value: an optional is <<>> or <<v>>
None == <<>>

Some(v) == <<v>>

IsSpace(c) == c \in {" ", "\n"}


\* str.rstrip("/"): drops every trailing "/"
RECURSIVE RStripSlash(_)
RStripSlash(s) ==
    IF s # <<>> /\ s[Len(s)] = "/" THEN RStripSlash(SubSeq(s, 1, Len(s) - 1))
    ELSE s

RECURSIVE RStripSpace(_)
RStripSpace(s) ==
    IF s # <<>> /\ IsSpace(s[Len(s)]) THEN RStripSpace(SubSeq(s, 1, Len(s) - 1))
    ELSE s

RECURSIVE LStripSpace(_)
LStripSpace(s) ==
    IF s # <<>> /\ IsSpace(s[1]) THEN LStripSpace(Tail(s))
    ELSE s

\* str.strip()
Strip(s) == LStripSpace(RStripSpace(s))

\* "in" on strings: p occurs in s
Contains(s, p) ==
    \E k \in 0..(Len(s) - Len(p)) : SubSeq(s, k + 1, k + Len(p)) = p

Digits == <<"0", "1", "2", "3", "4", "5", "6", "7", "8", "9">>

\* str(n) for n >= 0
RECURSIVE str(_)
str(n) ==
    IF n < 10 THEN <<Digits[n + 1]>>
    ELSE str(n \div 10) \o <<Digits[(n % 10) + 1]>>

\* faulty variant of SliceTo: the element at index k is taken too
SliceThrough(xs, k) == SubSeq(xs, 1, IF k + 1 > Len(xs) THEN Len(xs) ELSE k + 1)

\* list slice xs[:k], negative k counted from the end
SliceTo(xs, k) ==
    LET stop == IF k < 0 THEN (IF Len(xs) + k < 0 THEN 0 ELSE Len(xs) + k)
                ELSE (IF k > Len(xs) THEN Len(xs) ELSE k)
    IN SubSeq(xs, 1, stop)

--------------------------------------------------------------------------
(* requests *)

\* the tokens that spell the start of an absolute http(s) URL
SchemeTokens ==
    {"https://", "https://x", "https://x/s0.xml", "https://x/s1.xml"}

\* the tokens whose spelling starts with the characters "http"
HttpTokens == SchemeTokens \cup {"http"}

\* the tokens that spell (the start of) a host name
HostTokens == {"x", "http"}

\* an http(s) URL with a host: the scheme and the host in one token, or the
\* token "https://" followed by a host
HasScheme(url) ==
    /\ url # <<>>
    /\ url[1] \in SchemeTokens
    /\ url[1] = "https://" => (Len(url) >= 2 /\ url[2] \in HostTokens)

\* requests.get raising requests.RequestException
RequestException == [exc |-> TRUE, status_code |-> 0]

\* requests.get(url): a URL without http(s) scheme or without host raises
\* MissingSchema, InvalidSchema or InvalidURL (each a RequestException)
\* before anything is sent; otherwise the environment's answer
requests_get(url, answer) ==
    IF HasScheme(url) THEN answer ELSE RequestException

\* Response.raise_for_status(): raises HTTPError for 4xx and 5xx
RaisesForStatus(r) == r.status_code >= 400 /\ r.status_code < 600

\* faulty variant of FetchFailed: raise_for_status() left out
FetchFailedNoStatus(r) == r.exc

\* requests.get(...) followed by r.raise_for_status() inside try/except
\* requests.RequestException: whether the except branch is taken
FetchFailed(r) == r.exc \/ RaisesForStatus(r)

--------------------------------------------------------------------------
(* discover_sitemap *)

\* SITEMAP_RE = re.compile(r"Sitemap:\s*(\S+)"), first match of finditer:
\* the leftmost "Sitemap:" that is followed, after any whitespace (line
\* breaks included), by a run of non-whitespace; group(1) is that run.
SkipSpace(text, j) ==
    LET rest == {k \in j..Len(text) : ~IsSpace(text[k])}
    IN IF rest = {} THEN Len(text) + 1
       ELSE CHOOSE k \in rest : \A m \in rest : k <= m

RunEnd(text, j) ==
    LET stops == {k \in j..Len(text) : IsSpace(text[k])}
    IN IF stops = {} THEN Len(text)
       ELSE (CHOOSE k \in stops : \A m \in stops : k <= m) - 1

SITEMAP_RE_first(text) ==
    LET starts == {k \in 1..Len(text) :
                      text[k] = "Sitemap:" /\ SkipSpace(text, k + 1) <= Len(text)}
    IN IF starts = {} THEN None
       ELSE LET first == CHOOSE k \in starts : \A m \in starts : k <= m
                b == SkipSpace(text, first + 1)
            IN Some(SubSeq(text, b, RunEnd(text, b)))

\* base_url.startswith("http")
StartsWithHttp(s) == s # <<>> /\ s[1] \in HttpTokens

\* lines 40-41: the scheme defaults to https
WithScheme(base_url) ==
    IF ~StartsWithHttp(base_url) THEN <<"https://">> \o base_url ELSE base_url

\* line 42
RobotsUrl(base_url) == RStripSlash(WithScheme(base_url)) \o <<"/robots.txt">>

discover_sitemap(base_url, answer) ==
    LET base == WithScheme(base_url)
        robots_url == RobotsUrl(base_url)
        r == requests_get(robots_url, answer)
        m == IF ~r.exc /\ r.status_code = 200 THEN SITEMAP_RE_first(r.text)
             ELSE None
    IN IF m # None THEN m[1]
       ELSE RStripSlash(base) \o <<"/sitemap.xml">>

--------------------------------------------------------------------------
(* parse_sitemap *)

\* GET of a sitemap URL: the environment's answer, a connection error for
\* a URL nothing serves
WebAnswer(url) ==
    IF url \in DOMAIN web THEN web[url]
    ELSE [exc |-> TRUE, status_code |-> 0, kind |-> "urlset", locs |-> <<>>]

\* faulty variant of IsSitemapIndex: an index is read as a plain sitemap
IsSitemapIndexNever(soup) == FALSE

\* soup.find("sitemapindex")
IsSitemapIndex(soup) == soup.kind = "sitemapindex"

\* [loc.text.strip() for loc in soup.find_all("loc")]
LocTexts(soup) == [k \in 1..Len(soup.locs) |-> Strip(soup.locs[k])]

\* faulty variant of Extend: the nested result goes in front
ExtendInFront(xs, ys) == ys \o xs

\* line 66: urls.extend(ys)
Extend(xs, ys) == xs \o ys

\* a fresh activation of parse_sitemap(sitemap_url): urls = []
Frame(url) == [sitemap_url |-> url, urls |-> <<>>, todo |-> <<>>, at |-> "get"]

Top == stack[Len(stack)]

SetTop(f) == [stack EXCEPT ![Len(stack)] = f]

\* sys.exit(message): SystemExit unwinds every frame, status 1
SysExit ==
    /\ pc' = "exit"
    /\ exit_status' = 1
    /\ stack' = <<>>

\* an exception nobody catches: traceback, status 1
Uncaught ==
    /\ pc' = "crash"
    /\ exit_status' = 1
    /\ stack' = <<>>

\* lines 56-64 and 67-69: fetch, exit on failure, parse, and for a plain
\* sitemap collect the <loc> texts
ParseGet ==
    /\ pc = "parse" /\ stack # <<>> /\ Top.at = "get"
    /\ LET r == requests_get(Top.sitemap_url, WebAnswer(Top.sitemap_url))
       IN /\ log' = Append(log, [op |-> "sitemap", arg |-> Top.sitemap_url])
          /\ IF FetchFailed(r)
             THEN SysExit
             ELSE /\ stack' = IF IsSitemapIndex(r)
                              THEN SetTop([Top EXCEPT !.todo = LocTexts(r),
                                                      !.at = "index"])
                              ELSE SetTop([Top EXCEPT !.urls = @ \o LocTexts(r),
                                                      !.at = "return"])
                  /\ UNCHANGED <<pc, exit_status>>
    /\ UNCHANGED <<env, sitemap_url, urls, i, title, posts, rss, file>>

\* line 66, the call: parse_sitemap(loc.text.strip()) for the next <loc> of
\* an index; Python raises RecursionError when the stack is exhausted
ParseRecurse ==
    /\ pc = "parse" /\ stack # <<>> /\ Top.at = "index" /\ Top.todo # <<>>
    /\ IF Len(stack) < MaxDepth
       THEN /\ stack' = Append(stack, Frame(Head(Top.todo)))
            /\ UNCHANGED <<pc, exit_status>>
       ELSE Uncaught
    /\ UNCHANGED <<env, sitemap_url, urls, i, title, posts, rss, file, log>>

\* line 70, return urls; in the caller line 66 urls.extend(...), or in main
\* line 144 urls = ...
ParseReturn ==
    /\ pc = "parse" /\ stack # <<>>
    /\ IF Top.at = "index" THEN Top.todo = <<>> ELSE Top.at = "return"
    /\ IF Len(stack) = 1
       THEN /\ urls' = Top.urls
            /\ stack' = <<>>
            /\ pc' = "filter"
       ELSE /\ LET caller == stack[Len(stack) - 1]
               IN stack' = [SubSeq(stack, 1, Len(stack) - 1)
                              EXCEPT ![Len(stack) - 1] =
                                  [caller EXCEPT !.urls = Extend(@, Top.urls),
                                                 !.todo = Tail(@)]]
            /\ UNCHANGED <<urls, pc>>
    /\ UNCHANGED <<env, sitemap_url, i, title, posts, rss, file, exit_status, log>>

--------------------------------------------------------------------------
(* fetch_title, generate_post, build_wxr *)

PageAnswer(url) ==
    IF url \in DOMAIN pages THEN pages[url]
    ELSE [exc |-> TRUE, status_code |-> 0, titles |-> <<>>]

\* lines 74-81: None on a request error or without <title>, else the
\* stripped text of the first <title>
fetch_title(url) ==
    LET r == requests_get(url, PageAnswer(url))
    IN IF FetchFailed(r) THEN None
       ELSE IF r.titles = <<>> THEN None
       ELSE Some(Strip(r.titles[1]))

\* f"Untitled Post {n}"
UntitledPost(n) == <<"Untitled Post ">> \o str(n)

\* faulty variant of TitleOr: the placeholder only for None
TitleOrIfNone(t, n) == IF t # None THEN t[1] ELSE UntitledPost(n)

\* line 155: fetch_title(url) or f"Untitled Post {i+1}"; `or` takes the
\* right operand when the left one is None or the empty string
TitleOr(t, n) == IF t # None /\ t[1] # <<>> THEN t[1] ELSE UntitledPost(n)

\* line 161: f"{args.url.rstrip('/')}/?p={i+1}"
Guid(url, n) == RStripSlash(url) \o <<"/?p=">> \o str(n)

\* faulty variant of Post: the id is the 0-based loop index
PostZeroBased(n, t, content) ==
    [id |-> n - 1, title |-> t, content |-> content, guid |-> Guid(args.url, n)]

\* lines 157-162
Post(n, t, content) ==
    [id |-> n, title |-> t, content |-> content, guid |-> Guid(args.url, n)]

\* lines 119-131: one <item> per post, in order
Item(p) ==
    [title |-> p.title, creator |-> "admin", guid |-> p.guid,
     content |-> p.content, post_id |-> str(p.id),
     post_type |-> "post", status |-> "publish"]

build_wxr(ps, site_title, site_url) ==
    [title |-> site_title, link |-> site_url,
     items |-> [k \in 1..Len(ps) |-> Item(ps[k])]]

--------------------------------------------------------------------------
(* main *)

\* lines 142-144: discover the sitemap and call parse_sitemap on it
Discover ==
    /\ pc = "start"
    /\ sitemap_url' = discover_sitemap(args.url, robots)
    /\ stack' = <<Frame(sitemap_url')>>
    /\ pc' = "parse"
    /\ UNCHANGED <<env, urls, i, title, posts, rss, file, exit_status, log>>

\* faulty variant of FilterUrls: the filter must start the URL
FilterUrlsStartsWith(us, f) ==
    SelectSeq(us, LAMBDA u : Len(u) >= Len(f) /\ SubSeq(u, 1, Len(f)) = f)

\* line 148: [u for u in urls if args.domain_filter in u]
FilterUrls(us, f) == SelectSeq(us, LAMBDA u : Contains(u, f))

\* lines 147-151: `if args.domain_filter` is false for None and for ""
Filter ==
    /\ pc = "filter"
    /\ urls' = IF args.domain_filter # None /\ args.domain_filter[1] # <<>>
               THEN FilterUrls(urls, args.domain_filter[1])
               ELSE urls
    /\ IF urls' = <<>>
       THEN SysExit /\ i' = i
       ELSE /\ pc' = "loop"
            /\ i' = 0
            /\ UNCHANGED <<stack, exit_status>>
    /\ UNCHANGED <<env, sitemap_url, title, posts, rss, file, log>>

\* line 154: urls[: args.max_posts]
Selected == SliceTo(urls, args.max_posts)

\* faulty variant of Exhausted: the loop stops one element early
ExhaustedEarly(k, xs) == k >= Len(xs) - 1

\* the for loop of line 154 has no element left after k of them
Exhausted(k, xs) == k >= Len(xs)

\* line 154: the next element of the enumeration, or the end of the loop
LoopHead ==
    /\ pc = "loop"
    /\ pc' = IF Exhausted(i, Selected) THEN "build" ELSE "title"
    /\ UNCHANGED <<env, sitemap_url, stack, urls, i, title, posts, rss, file,
                   exit_status, log>>

\* line 155
FetchTitle ==
    /\ pc = "title"
    /\ title' = TitleOr(fetch_title(Selected[i + 1]), i + 1)
    /\ log' = Append(log, [op |-> "title", arg |-> Selected[i + 1]])
    /\ pc' = "generate"
    /\ UNCHANGED <<env, sitemap_url, stack, urls, i, posts, rss, file, exit_status>>

\* what the external service does with one request: an error (None) or a text
Completions == {None, Some(<<"text">>)}

\* lines 156-162: generate_post raises whatever the service call raises
GeneratePost ==
    /\ pc = "generate"
    /\ log' = Append(log, [op |-> "generate", arg |-> title])
    /\ \E completion \in Completions :
          IF completion = None
          THEN Uncaught /\ posts' = posts
          ELSE /\ posts' = Append(posts, Post(i + 1, title, Strip(completion[1])))
               /\ pc' = "sleep"
               /\ UNCHANGED <<stack, exit_status>>
    /\ UNCHANGED <<env, sitemap_url, urls, i, title, rss, file>>

\* line 163, and the step of the enumeration
Sleep ==
    /\ pc = "sleep"
    /\ log' = Append(log, [op |-> "sleep", arg |-> <<>>])
    /\ i' = i + 1
    /\ pc' = "loop"
    /\ UNCHANGED <<env, sitemap_url, stack, urls, title, posts, rss, file, exit_status>>

\* line 165
BuildWxr ==
    /\ pc = "build"
    /\ rss' = Some(build_wxr(posts, <<"Secret Hotline AI Blog">>, args.url))
    /\ pc' = "write"
    /\ UNCHANGED <<env, sitemap_url, stack, urls, i, title, posts, file,
                   exit_status, log>>

\* lines 166-168: serialize the tree and write it in one call; main returns
WriteFile ==
    /\ pc = "write"
    /\ file' = Append(file, rss[1])
    /\ pc' = "done"
    /\ exit_status' = 0
    /\ UNCHANGED <<env, sitemap_url, stack, urls, i, title, posts, rss, log>>

--------------------------------------------------------------------------
(* The inputs and the environment *)

S0 == <<"https://x/s0.xml">>

S1 == <<"https://x/s1.xml">>

\* <base>/sitemap.xml of the base https://x
SitemapXml == <<"https://", "x", "/sitemap.xml">>

SitemapUrls == {S0, S1, SitemapXml}

PageA == <<"https://x", "/", "a">>

PageB == <<"https://x", "/", "b">>

PageAB == <<"https://x", "/", "a", "/", "b">>

PageUrls == {PageA, PageB, PageAB}

Args(url, f, k) ==
    [url |-> url, domain_filter |-> f, max_posts |-> k,
     output |-> <<"generated_posts.xml">>]

\* answers to GET /robots.txt
RobotsText(code, text) == [exc |-> FALSE, status_code |-> code, text |-> text]

RobotsError == [exc |-> TRUE, status_code |-> 0, text |-> <<>>]

RobotsTokens == {"Sitemap:", " ", "\n", "https://x/s0.xml", "https://x/s1.xml"}

RobotsAnswers ==
    {RobotsError} \cup
    {RobotsText(code, text) : code \in {200, 404},
                              text \in SeqsUpTo(RobotsTokens, MaxRobotsLen)}

\* answers to GET of a sitemap URL
SitemapDoc(kind, locs) ==
    [exc |-> FALSE, status_code |-> 200, kind |-> kind, locs |-> locs]

SitemapFailures ==
    {[exc |-> TRUE, status_code |-> 0, kind |-> "urlset", locs |-> <<>>],
     [exc |-> FALSE, status_code |-> 404, kind |-> "urlset", locs |-> <<>>]}

SitemapIndexes ==
    {SitemapDoc("sitemapindex", locs) : locs \in SeqsUpTo(SitemapUrls, MaxLocs)}

Urlsets == {SitemapDoc("urlset", locs) : locs \in SeqsUpTo(PageUrls, MaxLocs)}

SitemapAnswers == SitemapFailures \cup SitemapIndexes \cup Urlsets

\* answers to GET of a page URL: the texts of its <title> elements
Page(titles) == [exc |-> FALSE, status_code |-> 200, titles |-> titles]

PageFailures ==
    {[exc |-> TRUE, status_code |-> 0, titles |-> <<>>],
     [exc |-> FALSE, status_code |-> 404, titles |-> <<>>]}

TitleTexts == SeqsUpTo({" ", "t"}, MaxTitleLen)

PageAnswers ==
    PageFailures \cup {Page(<<>>)} \cup
    {Page(<<t>>) : t \in TitleTexts} \cup
    {Page(<<t, <<"u">> >>) : t \in TitleTexts}

TitledPages ==
    (PageA :> Page(<< <<"t">> >>)) @@ (PageB :> Page(<< <<" ", "t">> >>)) @@
    (PageAB :> Page(<< <<"u">> >>))

BaseTokens == {"https://", "http", "x", "/"}

BaseUrls == SeqsUpTo(BaseTokens, MaxBaseLen)

Filters == {None} \cup {Some(f) : f \in SeqsUpTo({"a", "b"}, MaxFilterLen)}

\* the state when main starts
Start(a, r, w, p) ==
    /\ args = a /\ robots = r /\ web = w /\ pages = p
    /\ pc = "start"
    /\ sitemap_url = <<>>
    /\ stack = <<>>
    /\ urls = <<>>
    /\ i = 0
    /\ title = <<>>
    /\ posts = <<>>
    /\ rss = None
    /\ file = <<>>
    /\ exit_status = -1
    /\ log = <<>>

\* every sitemap of two may be anything; /sitemap.xml is an index of both
InitSitemaps ==
    \E r \in {RobotsError, RobotsText(200, <<"Sitemap:", " ", "https://x/s0.xml">>)},
       w \in [{S0, S1} -> SitemapAnswers] :
        Start(Args(<<"https://", "x">>, None, DefaultMaxPosts), r,
              w @@ (SitemapXml :> SitemapDoc("sitemapindex", <<S0, S1>>)),
              TitledPages)

\* every filter and every --max-posts, over URL lists of several lengths
InitSelection ==
    \E f \in Filters, k \in (-1)..MaxPosts, locs \in SeqsUpTo(PageUrls, MaxLocs) :
        Start(Args(<<"https://", "x", "/">>, f, k), RobotsText(404, <<>>),
              (SitemapXml :> SitemapDoc("sitemapindex", <<S0, S1>>)) @@
              (S0 :> SitemapDoc("urlset", locs)) @@
              (S1 :> SitemapDoc("urlset", <<PageAB, PageA>>)),
              TitledPages)

\* every answer of two pages, and base URLs with and without slashes
InitPages ==
    \E b \in {<<"x">>, <<"https://", "x", "/">>, <<"https://", "x", "/", "/">>},
       p \in [{PageA, PageB} -> PageAnswers] :
        Start(Args(b, None, DefaultMaxPosts), RobotsError,
              (SitemapXml :> SitemapDoc("urlset", <<PageA, PageB, PageAB>>)),
              p @@ TitledPages)

Init == InitSitemaps \/ InitSelection \/ InitPages

Next ==
    \/ Discover
    \/ ParseGet
    \/ ParseRecurse
    \/ ParseReturn
    \/ Filter
    \/ LoopHead
    \/ FetchTitle
    \/ GeneratePost
    \/ Sleep
    \/ BuildWxr
    \/ WriteFile

Spec == Init /\ [][Next]_vars

\* discover_sitemap alone, over every base address and every robots.txt
InitLocator ==
    \E b \in BaseUrls, r \in RobotsAnswers :
        Start(Args(b, None, DefaultMaxPosts), r,
              (SitemapXml :> SitemapDoc("urlset", <<PageA>>)), TitledPages)

NextLocator == Discover

SpecLocator == InitLocator /\ [][NextLocator]_vars

\* the state when main calls parse_sitemap(S0) in the web w
ParseCalled(w) ==
    /\ args = Args(<<"https://", "x">>, None, DefaultMaxPosts)
    /\ robots = RobotsText(200, <<"Sitemap:", " ", "https://x/s0.xml">>)
    /\ web = w /\ pages = TitledPages
    /\ pc = "parse"
    /\ sitemap_url = S0
    /\ stack = <<Frame(S0)>>
    /\ urls = <<>>
    /\ i = 0
    /\ title = <<>>
    /\ posts = <<>>
    /\ rss = None
    /\ file = <<>>
    /\ exit_status = -1
    /\ log = <<>>

ShortUrlsets ==
    {SitemapDoc("urlset", locs) : locs \in SeqsUpTo({PageA, PageB}, MaxLocs)}

\* parse_sitemap alone, in every web of three sitemaps
InitExpander ==
    \E w \in [SitemapUrls -> SitemapFailures \cup SitemapIndexes \cup ShortUrlsets] :
        ParseCalled(w)

NextExpander == ParseGet \/ ParseRecurse \/ ParseReturn

SpecExpander == InitExpander /\ [][NextExpander]_vars

\* parse_sitemap alone, in every web where two sitemaps fail, list sitemaps
\* or list at most a page, and /sitemap.xml is an index of the first
InitLinks ==
    \E w \in [{S0, S1} -> SitemapFailures \cup SitemapIndexes
                            \cup {SitemapDoc("urlset", <<>>),
                                  SitemapDoc("urlset", <<PageA>>)}] :
        ParseCalled(w @@ (SitemapXml :> SitemapDoc("sitemapindex", <<S0>>)))

\* parse_sitemap runs to its end: Python executes the next statement
SpecExpanderFair == InitLinks /\ [][NextExpander]_vars /\ WF_vars(NextExpander)

--------------------------------------------------------------------------
(* Properties of discover_sitemap, under SpecLocator *)

\* the lines of a text
RECURSIVE Lines(_)
Lines(text) ==
    LET breaks == {k \in 1..Len(text) : text[k] = "\n"}
    IN IF breaks = {} THEN <<text>>
       ELSE LET b == CHOOSE k \in breaks : \A m \in breaks : k <= m
            IN <<SubSeq(text, 1, b - 1)>> \o Lines(SubSeq(text, b + 1, Len(text)))

\* the URL of the first line that holds "Sitemap: <url>", scanning line by line
FirstDirective(text) ==
    LET ls == Lines(text)
        hits == {k \in 1..Len(ls) : SITEMAP_RE_first(ls[k]) # None}
    IN IF hits = {} THEN None
       ELSE SITEMAP_RE_first(ls[CHOOSE k \in hits : \A m \in hits : k <= m])

\* what GET <base>/robots.txt gave discover_sitemap
RobotsResponse == requests_get(RobotsUrl(args.url), robots)

Discovered == pc = "parse" /\ stack = <<Frame(sitemap_url)>>

\* C7: when robots.txt is served with status 200 and one of its lines is a
\* "Sitemap: <url>" directive, discover_sitemap returns the URL of the first
\* such line, however many directives follow.
C7_FirstDirectiveReturned ==
    (Discovered /\ ~RobotsResponse.exc /\ RobotsResponse.status_code = 200
         /\ FirstDirective(RobotsResponse.text) # None)
        => sitemap_url = FirstDirective(RobotsResponse.text)[1]

\* whether the base address names its scheme
NamesScheme(base_url) == base_url # <<>> /\ base_url[1] \in {"https://", "http://"}

\* C8: when the robots.txt request fails, is answered with a status other
\* than 200, or holds no Sitemap: directive, discover_sitemap returns
\* <base>/sitemap.xml, <base> being the address with "https://" in front
\* when it names no scheme and without trailing slashes.
C8_FallbackIsBaseSitemapXml ==
    (Discovered /\ (RobotsResponse.exc \/ RobotsResponse.status_code # 200
                      \/ SITEMAP_RE_first(RobotsResponse.text) = None))
        => /\ sitemap_url =
                RStripSlash(IF NamesScheme(args.url) THEN args.url
                            ELSE <<"https://">> \o args.url) \o <<"/sitemap.xml">>
           /\ ~Contains(sitemap_url, <<"/", "/sitemap.xml">>)

--------------------------------------------------------------------------
(* Properties of parse_sitemap, under SpecExpander and SpecExpanderFair *)

\* whether GET of sitemap u answers a document
Served(u) == ~WebAnswer(u).exc /\ WebAnswer(u).status_code = 200 /\ HasScheme(u)

IsIndex(u) == Served(u) /\ WebAnswer(u).kind = "sitemapindex"

IsPlain(u) == Served(u) /\ WebAnswer(u).kind = "urlset"

\* the <loc> values of the sitemaps us, one sitemap after the other
RECURSIVE LocsOfAll(_)
LocsOfAll(us) ==
    IF us = <<>> THEN <<>> ELSE WebAnswer(Head(us)).locs \o LocsOfAll(Tail(us))

\* the start sitemap is an index of n plain sitemaps with m <loc> each
IndexOfPlain(n, m) ==
    /\ IsIndex(sitemap_url)
    /\ Len(WebAnswer(sitemap_url).locs) = n
    /\ \A k \in 1..n :
          /\ IsPlain(WebAnswer(sitemap_url).locs[k])
          /\ Len(WebAnswer(WebAnswer(sitemap_url).locs[k]).locs) = m

\* C6: for an index of N plain sitemaps with M <loc> each, parse_sitemap
\* returns N*M URLs: the M of the first child in document order, then the M
\* of the second, and so on, and no <loc> of the index itself.
C6_IndexExpandsDepthFirst ==
    \A n \in 0..MaxLocs, m \in 0..MaxLocs :
        (pc = "filter" /\ IndexOfPlain(n, m))
            => /\ Len(urls) = n * m
               /\ urls = LocsOfAll(WebAnswer(sitemap_url).locs)
               /\ \A k \in 1..Len(urls) : urls[k] \notin SitemapUrls

C6_Witness ==
    /\ pc = "filter" /\ IndexOfPlain(2, 2)
    /\ WebAnswer(sitemap_url).locs[1] # WebAnswer(sitemap_url).locs[2]
    /\ urls[1] # urls[3]

\* the sitemaps an index lists
Children(u) ==
    IF IsIndex(u) THEN {WebAnswer(u).locs[k] : k \in 1..Len(WebAnswer(u).locs)}
    ELSE {}

\* the sitemaps reachable from those of us through index entries
RECURSIVE ReachableFrom(_)
ReachableFrom(us) ==
    LET more == us \cup UNION {Children(u) : u \in us}
    IN IF more = us THEN us ELSE ReachableFrom(more)

Reachable == ReachableFrom({sitemap_url})

\* an index reachable from the start lists itself, directly or through others
Cyclic == \E u \in Reachable : u \in ReachableFrom(Children(u))

EveryFetchSucceeds == \A u \in Reachable : Served(u)

Fetches(u) == Cardinality({k \in 1..Len(log) : log[k] = [op |-> "sitemap", arg |-> u]})

\* C10: with a cycle among the reachable sitemap indexes and every fetch
\* succeeding, parse_sitemap never returns a URL list to main and its nesting
\* only ends with the interpreter's stack (after fetching some sitemap again);
\* without a cycle the expansion ends, with a list or with the fatal exit.
C10_CycleNeverReturns ==
    /\ [](Cyclic /\ EveryFetchSucceeds
            => /\ pc \in {"parse", "crash"}
               /\ pc = "crash" => \E u \in Reachable : Fetches(u) >= 2)
    /\ (~Cyclic) ~> (pc \in {"filter", "exit"})

C10_Witness ==
    /\ Cyclic /\ EveryFetchSucceeds
    /\ pc = "parse" /\ Len(stack) = MaxDepth
    /\ \E u \in Reachable : Fetches(u) >= 2

--------------------------------------------------------------------------
(* Properties of main, under Spec *)

Count(op) == Cardinality({k \in 1..Len(log) : log[k].op = op})

\* the page URLs whose title was fetched, in the order of the fetches
RECURSIVE TitleFetches(_)
TitleFetches(l) ==
    IF l = <<>> THEN <<>>
    ELSE (IF Head(l).op = "title" THEN <<Head(l).arg>> ELSE <<>>)
            \o TitleFetches(Tail(l))

\* C1: the output path is written at most once, and only when a post has
\* been generated for every selected URL; a run that ended in sys.exit or in
\* an uncaught error has written nothing.
C1_WrittenOnceAfterAllPosts ==
    /\ Len(file) <= 1
    /\ file # <<>> => /\ pc = "done"
                      /\ Len(posts) = Len(Selected)
                      /\ Count("generate") = Len(Selected)
                      /\ Len(file[1].items) = Len(Selected)
    /\ pc \in {"exit", "crash"} => file = <<>>

C1_Witness ==
    /\ pc = "crash" /\ file = <<>>
    /\ Len(posts) >= 1 /\ Len(posts) = Len(Selected) - 1
    /\ Count("generate") = Len(Selected)

\* the fatal state: SystemExit with status 1, nothing collected, no page
\* fetched, nothing generated, no pause, nothing written, no further step
Fatal ==
    /\ pc = "exit" /\ exit_status = 1
    /\ stack = <<>> /\ urls = <<>> /\ posts = <<>> /\ file = <<>>
    /\ Count("title") = 0 /\ Count("generate") = 0 /\ Count("sleep") = 0
    /\ ~ENABLED Next

TitlePage(k) == requests_get(Selected[k], PageAnswer(Selected[k]))

NoTitle(k) == TitlePage(k).exc \/ TitlePage(k).status_code # 200
                  \/ TitlePage(k).titles = <<>>

\* every title fetch is followed by the generation call for the same post
TitleThenGenerate ==
    \A k \in 1..Len(log) :
        log[k].op = "title" =>
            IF k = Len(log) THEN pc = "generate" ELSE log[k + 1].op = "generate"

\* C3 as stated: the title of post N is "Untitled Post N" when the page fetch
\* fails or the page has no <title>, and otherwise the trimmed text of the
\* first <title>.
C3_TitleOrPlaceholderOnlyIfAbsent ==
    \A k \in 1..Len(posts) :
        posts[k].title = IF NoTitle(k) THEN <<"Untitled Post ">> \o str(k)
                         ELSE Strip(TitlePage(k).titles[1])

\* C3 amended: "Untitled Post N" also when the trimmed text of the first
\* <title> is empty; the title fetch never ends the run and the generation
\* call for the post follows it.
C3_TitleOrPlaceholder ==
    /\ \A k \in 1..Len(posts) :
          posts[k].title =
              IF NoTitle(k) \/ Strip(TitlePage(k).titles[1]) = <<>>
              THEN <<"Untitled Post ">> \o str(k)
              ELSE Strip(TitlePage(k).titles[1])
    /\ TitleThenGenerate

\* a blank <title>, a failed page fetch, and a <title> with a text
C3_Witness ==
    /\ Len(posts) = 3
    /\ ~NoTitle(1) /\ TitlePage(1).titles[1] = <<" ">>
    /\ posts[1].title = <<"Untitled Post ", "1">>
    /\ TitlePage(2).status_code = 404
    /\ posts[2].title = <<"Untitled Post ", "2">>
    /\ ~NoTitle(3) /\ posts[3].title = <<"u">>

\* C4 as stated: with --max-posts K and more than K filtered URLs, a run
\* that completes made exactly K posts with K generation calls from the
\* first K URLs in order, for every integer K.
C4_ExactlyKPostsAnyK ==
    (pc = "done" /\ Len(urls) > args.max_posts)
        => /\ Len(posts) = args.max_posts
           /\ Count("generate") = args.max_posts
           /\ TitleFetches(log) = SubSeq(urls, 1, args.max_posts)

\* C4 amended: the same for every K >= 0.
C4_ExactlyKPosts ==
    (pc = "done" /\ args.max_posts >= 0 /\ Len(urls) > args.max_posts)
        => /\ Len(posts) = args.max_posts
           /\ Count("generate") = args.max_posts
           /\ TitleFetches(log) = SubSeq(urls, 1, args.max_posts)

C4_Witness ==
    /\ pc = "done" /\ args.max_posts = MaxPosts /\ Len(urls) > MaxPosts
    /\ Len(posts) = MaxPosts

\* the base URL without its trailing slashes
TrimmedBase ==
    LET u == args.url
        m == CHOOSE m \in 0..Len(u) :
                 /\ m = 0 \/ u[m] # "/"
                 /\ \A j \in (m + 1)..Len(u) : u[j] = "/"
    IN SubSeq(u, 1, m)

\* C5: when build_wxr has been called, the posts have the ids 1..n in the
\* order of the selected URLs, post k has the GUID <base without trailing
\* slashes>/?p=k, and the export has one <item> per post, in order, with the
\* post's id as wp:post_id and the post's GUID as guid.
C5_IdsGuidsAndItems ==
    pc \in {"write", "done"} =>
        /\ Len(posts) = Len(Selected)
        /\ TitleFetches(log) = Selected
        /\ \A k \in 1..Len(posts) :
              /\ posts[k].id = k
              /\ posts[k].guid = TrimmedBase \o <<"/?p=">> \o str(k)
        /\ Len(rss[1].items) = Len(posts)
        /\ \A k \in 1..Len(posts) :
              /\ rss[1].items[k].post_id = str(posts[k].id)
              /\ rss[1].items[k].guid = posts[k].guid
              /\ rss[1].items[k].title = posts[k].title
        /\ pc = "done" => file = <<rss[1]>>

C5_Witness ==
    /\ pc = "done" /\ Len(posts) >= 2
    /\ args.url[Len(args.url)] = "/" /\ args.url[Len(args.url) - 1] = "/"
    /\ file[1].items[2].guid = <<"https://", "x", "/?p=", "2">>

\* the positions of the URLs of us that the filter f keeps
KeptBy(us, f) ==
    IF f = None THEN 1..Len(us) ELSE {k \in 1..Len(us) : Contains(us[k], f[1])}

\* C9: the filter step leaves exactly the URLs that contain the substring,
\* each as often as and in the order in which parse_sitemap returned them;
\* without a filter the list stays as it is.
C9_FilterKeepsMatchesInOrder ==
    [][pc = "filter" =>
          LET kept == KeptBy(urls, args.domain_filter)
          IN /\ Len(urls') = Cardinality(kept)
             /\ \A j \in 1..Len(urls') :
                   urls'[j] = urls[CHOOSE k \in kept :
                                      Cardinality({m \in kept : m <= k}) = j]
             /\ args.domain_filter = None => urls' = urls]_vars

C9_Witness ==
    /\ pc = "loop" /\ args.domain_filter = Some(<<"b">>)
    /\ Len(urls) >= 2
    /\ Len(urls) < Len(LocsOfAll(<<S0, S1>>))

==========================================================================
